---------------------------- MODULE Spec2Model ----------------------------
(***************************************************************************)
(* A model of the gtk-icon-cache reader (src/src/lib.rs): the bounds-      *)
(* checked accessors over the mapped file, load_cache, the bucket-chain    *)
(* walk of lookup and icon_name_hash.                                      *)
(*                                                                         *)
(* The mapped file is a sequence of bytes; the byte at offset o of the     *)
(* source is m[o + 1] here.  A Rust panic (an index out of bounds, an      *)
(* unwrap of None, a division by zero, an arithmetic overflow in a build   *)
(* with overflow checks) is the outcome Panic, a value like any other.     *)
(***************************************************************************)
EXTENDS Integers, Sequences, FiniteSets, TLC

VARIABLES
    file,             \* ghost: the description the mapped bytes were laid out from
    buf,              \* file_mmap: the bytes of the mapped file
    overflow_checks,  \* the build: TRUE panics on usize underflow, FALSE wraps
    pc,               \* where the caller stands
    cache,            \* the GtkIconCache load_cache returned
    name,             \* the argument of the lookup in progress
    bucket_offset,    \* lookup's local of the same name
    visited,          \* ghost: the offsets this lookup has read a chain node at
    result,           \* what the last call returned (or Panic)
    acc_out,          \* the last accessor call and what it returned
    hname,            \* the byte string last hashed
    hval              \* icon_name_hash(hname)

vars == <<file, buf, overflow_checks, pc, cache, name, bucket_offset, visited,
          result, acc_out, hname, hval>>

----------------------------------------------------------------------------
(* Option<T>, and the panic that ends a call.                              *)

None == [kind |-> "None"]

Some(v) == [kind |-> "Some", val |-> v]

Panic == [kind |-> "Panic"]

Min(a, b) == IF a < b THEN a ELSE b

RECURSIVE Flatten(_)
Flatten(ss) == IF ss = <<>> THEN <<>> ELSE Head(ss) \o Flatten(Tail(ss))

----------------------------------------------------------------------------
(* The accessors.                                                          *)

\* m[offset], m[offset + 1] behind Rust's index check.
Index16(m, offset) ==
    IF offset + 1 < Len(m)
    THEN Some(m[offset + 1] * 256 + m[offset + 2])
    ELSE Panic

\* m[offset] .. m[offset + 3] behind Rust's index check.
Index32(m, offset) ==
    IF offset + 3 < Len(m)
    THEN Some(m[offset + 1] * 16777216 + m[offset + 2] * 65536
              + m[offset + 3] * 256 + m[offset + 4])
    ELSE Panic

\* `len() - 2` on usize: below 2 bytes it panics where overflow is checked and
\* wraps to almost 2^64 otherwise, which every offset is below.
read_card16_from(m, offset, chk) ==
    IF Len(m) < 2
    THEN IF chk THEN Panic ELSE Index16(m, offset)
    ELSE IF offset < Len(m) - 2 THEN Index16(m, offset) ELSE None

\* `offset > 0 &&` short-circuits before `len() - 4` is computed.
read_card32_from(m, offset, chk) ==
    IF ~(offset > 0)
    THEN None
    ELSE IF Len(m) < 4
         THEN IF chk THEN Panic ELSE Index32(m, offset)
         ELSE IF offset < Len(m) - 4 THEN Index32(m, offset) ELSE None

\* The while loop of read_cstring_from: the first position >= t holding 0, or
\* -1 when the index runs off the end of the mapping (a panic).
RECURSIVE ScanNul(_, _)
ScanNul(m, t) ==
    IF t >= Len(m) THEN -1
    ELSE IF m[t + 1] = 0 THEN t
    ELSE ScanNul(m, t + 1)

\* String::from_utf8_lossy on a string of single bytes: ASCII is kept, a byte
\* that starts no valid sequence becomes U+FFFD (EF BF BD).
from_utf8_lossy(bytes) ==
    Flatten([i \in 1..Len(bytes) |->
                IF bytes[i] < 128 THEN <<bytes[i]>> ELSE <<239, 191, 189>>])

read_cstring_from(m, offset) ==
    LET terminate == ScanNul(m, offset)
    IN  IF terminate = -1 THEN Panic
        ELSE IF terminate = offset THEN None
        ELSE Some(from_utf8_lossy(SubSeq(m, offset + 1, terminate)))

----------------------------------------------------------------------------
(* icon_name_hash.  A u32 is the pair <<high 16 bits, low 16 bits>>.        *)

U32 == (0..65535) \X (0..65535)

U32Zero == <<0, 0>>

\* Wrapping(r) << 5
Shl5(r) ==
    <<(r[1] * 32 + (r[2] * 32) \div 65536) % 65536, (r[2] * 32) % 65536>>

\* Wrapping(a) - Wrapping(b)
WrappingSub(a, b) ==
    LET borrow == IF a[2] < b[2] THEN 1 ELSE 0
    IN  <<(a[1] - b[1] - borrow + 131072) % 65536, (a[2] - b[2] + 65536) % 65536>>

\* Wrapping(a) + Wrapping(c as u32), c a byte
WrappingAdd(a, c) ==
    <<(a[1] + (a[2] + c) \div 65536) % 65536, (a[2] + c) % 65536>>

HashStepShift4(r, c) ==
    LET s == <<(r[1] * 16 + (r[2] * 16) \div 65536) % 65536, (r[2] * 16) % 65536>>
    IN  WrappingAdd(WrappingSub(s, r), c)

\* The closure of the fold: (r << 5) - r + Wrapping(c as u32)
HashStep(r, c) == WrappingAdd(WrappingSub(Shl5(r), r), c)

\* The fold from accumulator r on.  The accumulator is a u32 at every step;
\* testing it has each step evaluated before the next is taken.
RECURSIVE HashFold(_, _)
HashFold(r, bytes) ==
    IF bytes = <<>> \/ r \notin U32 THEN r
    ELSE HashFold(HashStep(r, Head(bytes)), Tail(bytes))

icon_name_hash(bytes) == HashFold(U32Zero, bytes)

\* a + b mod n for a, b < n, without leaving the 31 bits TLC computes in
AddMod(a, b, n) == IF a >= n - b THEN a - (n - b) ELSE a + b

\* `icon_hash % n` on usize, for 0 < n < 2^31
U32Mod(h, n) ==
    IF h[1] < 32768
    THEN (h[1] * 65536 + h[2]) % n
    ELSE AddMod(((h[1] - 32768) * 65536 + h[2]) % n,
                AddMod(2147483647 % n, 1 % n, n), n)

----------------------------------------------------------------------------
(* The cache files the reader is run on: the layout of the format, written  *)
(* the way gtk-update-icon-cache lays a file out, then optionally damaged.  *)

MaxNodes == 3

MaxBuckets == 2

Be16(v) == <<(v \div 256) % 256, v % 256>>

Be32(v) == <<(v \div 16777216) % 256, (v \div 65536) % 256, (v \div 256) % 256, v % 256>>

\* "32" and "48", two directory names
DirA == <<51, 50>>

DirB == <<52, 56>>

\* ents[e] is the string of pool that entry e of the directory list points to:
\* two directories; one string listed twice; two equal strings; an empty name.
DirTables ==
    { [ents |-> <<1, 2>>, pool |-> <<DirA, DirB>>],
      [ents |-> <<1, 1>>, pool |-> <<DirA>>],
      [ents |-> <<1, 2>>, pool |-> <<DirA, DirA>>],
      [ents |-> <<1, 2>>, pool |-> <<DirA, <<>> >>] }

\* The directory_index fields of the first node's image list.
ListKinds == { <<>>, <<0>>, <<0, 1>>, <<0, 0>> }

\* The section that ends the file: strings, chain nodes or the directory list.
Tails == { "S", "N", "D" }

Descs ==
    [k : 1..MaxNodes, nb : 1..MaxBuckets, dirs : DirTables, lk : ListKinds,
     tail : Tails]

\* "a", "b", "c", ...: the icon name of node i
NodeName(i) == <<96 + i>>

\* The directory_index fields of node i's image list: node 1's, shifted.
NodeList(d, i) ==
    [j \in 1..Len(d.lk) |-> (d.lk[j] + i - 1) % Len(d.dirs.ents)]

BucketOf(d, i) == U32Mod(icon_name_hash(NodeName(i)), d.nb)

SecSize(d, s) ==
    CASE s = "H" -> 4 + 4 * d.nb
      [] s = "D" -> 4 + 4 * Len(d.dirs.ents)
      [] s = "N" -> 12 * d.k
      [] s = "L" -> d.k * (4 + 8 * Len(d.lk))
      [] s = "S" -> Len(Flatten(d.dirs.pool)) + Len(d.dirs.pool) + 2 * d.k

SecOrder(d) ==
    SelectSeq(<<"H", "D", "N", "L", "S">>, LAMBDA s : s # d.tail) \o <<d.tail>>

RECURSIVE SecOffIn(_, _, _)
SecOffIn(d, order, s) ==
    IF Head(order) = s THEN 0
    ELSE SecSize(d, Head(order)) + SecOffIn(d, Tail(order), s)

SecOff(d, s) == 12 + SecOffIn(d, SecOrder(d), s)

FileLen(d) == 12 + SecSize(d, "H") + SecSize(d, "D") + SecSize(d, "N")
                 + SecSize(d, "L") + SecSize(d, "S")

NodeOff(d, i) == SecOff(d, "N") + 12 * (i - 1)

ListOff(d, i) == SecOff(d, "L") + (i - 1) * (4 + 8 * Len(d.lk))

PoolOff(d, p) ==
    SecOff(d, "S") + Len(Flatten(SubSeq(d.dirs.pool, 1, p - 1))) + (p - 1)

NameOff(d, i) ==
    SecOff(d, "S") + Len(Flatten(d.dirs.pool)) + Len(d.dirs.pool) + 2 * (i - 1)

DirEntryOff(d, e) == SecOff(d, "D") + 4 + 4 * (e - 1)

\* The chain of bucket b: the nodes hashing to it, in order.
NodesIn(d, b) == { i \in 1..d.k : BucketOf(d, i) = b }

HeadOf(d, b) ==
    IF NodesIn(d, b) = {} THEN 0
    ELSE NodeOff(d, CHOOSE i \in NodesIn(d, b) : \A j \in NodesIn(d, b) : i <= j)

NextOf(d, i) ==
    LET later == { j \in NodesIn(d, BucketOf(d, i)) : j > i }
    IN  IF later = {} THEN 0
        ELSE NodeOff(d, CHOOSE j \in later : \A l \in later : j <= l)

SecBytes(d, s) ==
    CASE s = "H" -> Be32(d.nb) \o Flatten([b \in 1..d.nb |-> Be32(HeadOf(d, b - 1))])
      [] s = "D" -> Be32(Len(d.dirs.ents))
                    \o Flatten([e \in 1..Len(d.dirs.ents) |-> Be32(PoolOff(d, d.dirs.ents[e]))])
      [] s = "N" -> Flatten([i \in 1..d.k |->
                        Be32(NextOf(d, i)) \o Be32(NameOff(d, i)) \o Be32(ListOff(d, i))])
      [] s = "L" -> Flatten([i \in 1..d.k |->
                        Be32(Len(d.lk))
                        \o Flatten([j \in 1..Len(d.lk) |->
                               Be16(NodeList(d, i)[j]) \o <<0, 0>> \o Be32(0)])])
      [] s = "S" -> Flatten([p \in 1..Len(d.dirs.pool) |-> d.dirs.pool[p] \o <<0>>])
                    \o Flatten([i \in 1..d.k |-> NodeName(i) \o <<0>>])

Build(d) ==
    Be16(1) \o Be16(0) \o Be32(SecOff(d, "H")) \o Be32(SecOff(d, "D"))
    \o Flatten([n \in 1..5 |-> SecBytes(d, SecOrder(d)[n])])

NoDamage == [kind |-> "none"]

Poke(what, at, bytes) == [kind |-> what, at |-> at, bytes |-> bytes]

\* One way a file is damaged: another version, a zero bucket count, a chain
\* whose next_offset points back into the chain or past the end, a directory
\* entry pointing past the end, a last byte cut off.
Damages(d) ==
    { Poke("version", 0, Be16(v[1]) \o Be16(v[2])) : v \in {<<2, 0>>, <<2, 1>>, <<1, 1>>} }
    \cup { Poke("buckets", SecOff(d, "H"), Be32(0)) }
    \cup { Poke("cycle", NodeOff(d, c[1]), Be32(NodeOff(d, c[2]))) :
             c \in { c \in (1..d.k) \X (1..d.k) : c[2] <= c[1] } }
    \cup { Poke("next", NodeOff(d, d.k), Be32(FileLen(d))) }
    \cup { Poke("dir", DirEntryOff(d, e), Be32(FileLen(d))) : e \in 1..Len(d.dirs.ents) }
    \cup { [kind |-> "cut"] }

Damaged(m, c) ==
    CASE c.kind = "none" -> m
      [] c.kind = "cut" -> SubSeq(m, 1, Len(m) - 1)
      [] OTHER -> [i \in 1..Len(m) |->
                      IF i > c.at /\ i <= c.at + Len(c.bytes)
                      THEN c.bytes[i - c.at] ELSE m[i]]

----------------------------------------------------------------------------
(* load_cache and lookup.                                                  *)

\* The fields with_file_path constructs the value with.
NewCache ==
    [hash_offset |-> 0, directory_list_offset |-> 0, n_buckets |-> 0,
     dir_names |-> <<>>]

\* The `for i in 0..n_directorys` loop of load_cache from entry i on: the map,
\* None when an entry cannot be read, Panic when read_cstring_from panics.
RECURSIVE DumpDirectories(_, _, _, _, _, _)
DumpDirectories(m, chk, dlo, n, i, names) ==
    IF i >= n THEN Some(names)
    ELSE LET offset == read_card32_from(m, dlo + 4 + 4 * i, chk)
             dir == read_cstring_from(m, offset.val)
         IN  IF offset.kind # "Some" THEN offset
             ELSE IF dir.kind = "Panic" THEN Panic
             ELSE DumpDirectories(m, chk, dlo, n, i + 1,
                     IF dir.kind = "Some"
                     THEN (offset.val :> dir.val) @@ names
                     ELSE names)

\* `major_version != 1usize && minor_version != 0usize`
VersionRejected(major_version, minor_version) ==
    major_version # 1 /\ minor_version # 0

load_cache(m, chk) ==
    LET major_version == read_card16_from(m, 0, chk)
        minor_version == read_card16_from(m, 2, chk)
        hash_offset == read_card32_from(m, 4, chk)
        directory_list_offset == read_card32_from(m, 8, chk)
        n_buckets == read_card32_from(m, hash_offset.val, chk)
        n_directorys == read_card32_from(m, directory_list_offset.val, chk)
        dirs == DumpDirectories(m, chk, directory_list_offset.val,
                                n_directorys.val, 0, <<>>)
    IN  IF major_version.kind # "Some" THEN major_version
        ELSE IF minor_version.kind # "Some" THEN minor_version
        ELSE IF hash_offset.kind # "Some" THEN hash_offset
        ELSE IF directory_list_offset.kind # "Some" THEN directory_list_offset
        ELSE IF n_buckets.kind # "Some" THEN n_buckets
        ELSE IF VersionRejected(major_version.val, minor_version.val) THEN None
        ELSE IF n_directorys.kind # "Some" THEN n_directorys
        ELSE IF dirs.kind # "Some" THEN dirs
        ELSE Some([hash_offset |-> hash_offset.val,
                   directory_list_offset |-> directory_list_offset.val,
                   n_buckets |-> n_buckets.val,
                   dir_names |-> dirs.val])

\* The Vec a match returns, in no order: each name with the times it occurs.
Collected(r, dir_names) ==
    [n \in { dir_names[x] : x \in r } |->
        Cardinality({ x \in r : dir_names[x] = n })]

\* The body of `if cache == name`: the image list of the node at bo, resolved.
\* Records lying past the end of the mapping fail to read and add nothing, so
\* the loop is taken over the records that can start inside it.  The
\* allocation of HashSet::with_capacity(list_len) is not modelled.
LookupMatch(m, chk, c, bo) ==
    LET list_offset == read_card32_from(m, bo + 8, chk)
        list_len == read_card32_from(m, list_offset.val, chk)
        Recs == 0 .. (Min(list_len.val, Len(m)) - 1)
        dir_index(i) == read_card16_from(m, list_offset.val + 4 + 8 * i, chk)
        offset(i) == read_card32_from(m, c.directory_list_offset + 4
                                             + dir_index(i).val * 4, chk)
        r == { offset(i).val :
                 i \in { j \in Recs : /\ dir_index(j).kind = "Some"
                                      /\ offset(j).kind = "Some" } }
    IN  IF list_offset.kind # "Some" THEN list_offset
        ELSE IF list_len.kind # "Some" THEN list_len
        ELSE IF \E i \in Recs : \/ dir_index(i).kind = "Panic"
                                \/ /\ dir_index(i).kind = "Some"
                                   /\ offset(i).kind = "Panic"
             THEN Panic
        ELSE IF \E x \in r : x \notin DOMAIN c.dir_names
             THEN Panic          \* dir_names.get(&x).unwrap()
        ELSE Some(Collected(r, c.dir_names))

----------------------------------------------------------------------------
(* The reader run on a cache file.                                         *)

QueryNames == { NodeName(i) : i \in 1..(MaxNodes + 1) }

Idle == [kind |-> "Idle"]

Init ==
    /\ \E d \in Descs : \E c \in {NoDamage} \cup Damages(d) :
          /\ file = [desc |-> d, damage |-> c]
          /\ buf = Damaged(Build(d), c)
    /\ overflow_checks \in BOOLEAN
    /\ pc = "opened"
    /\ cache = NewCache
    /\ name = <<>>
    /\ bucket_offset = 0
    /\ visited = {}
    /\ result = Idle
    /\ acc_out = Idle
    /\ hname = <<>>
    /\ hval = U32Zero

\* with_file_path, from the mapped file on: `match r.load_cache()`.
Load ==
    /\ pc = "opened"
    /\ LET r == load_cache(buf, overflow_checks)
       IN  /\ result' = (IF r.kind = "Some" THEN Some("cache") ELSE r)
           /\ cache' = (IF r.kind = "Some" THEN r.val ELSE cache)
           /\ pc' = (CASE r.kind = "Some" -> "loaded"
                       [] r.kind = "None" -> "load_failed"
                       [] OTHER -> "load_panicked")
    /\ UNCHANGED <<file, buf, overflow_checks, name, bucket_offset, visited,
                   acc_out, hname, hval>>

\* lookup up to the loop: the hash, the bucket index, the head of the chain.
LookupBegin(n) ==
    /\ pc \in {"loaded", "returned"}
    /\ name' = n
    /\ visited' = {}
    /\ IF cache.n_buckets = 0
       THEN /\ pc' = "panicked"      \* icon_hash % self.n_buckets
            /\ result' = Panic
            /\ UNCHANGED bucket_offset
       ELSE LET bucket_index == U32Mod(icon_name_hash(n), cache.n_buckets)
                head == read_card32_from(buf, cache.hash_offset + 4
                                              + bucket_index * 4, overflow_checks)
            IN  IF head.kind = "Some"
                THEN /\ pc' = "walk"
                     /\ bucket_offset' = head.val
                     /\ result' = Idle
                ELSE /\ pc' = (IF head.kind = "Panic" THEN "panicked" ELSE "returned")
                     /\ result' = head
                     /\ UNCHANGED bucket_offset
    /\ UNCHANGED <<file, buf, overflow_checks, cache, acc_out, hname, hval>>

\* One pass of `while let Some(bucket_name_offset) = ...`.
LookupStep ==
    /\ pc = "walk"
    /\ LET bucket_name_offset == read_card32_from(buf, bucket_offset + 4, overflow_checks)
           str == read_cstring_from(buf, bucket_name_offset.val)
           next == read_card32_from(buf, bucket_offset, overflow_checks)
           Return(v) == /\ pc' = (IF v.kind = "Panic" THEN "panicked" ELSE "returned")
                        /\ result' = v
                        /\ UNCHANGED bucket_offset
       IN  IF bucket_name_offset.kind # "Some"
           THEN /\ Return(bucket_name_offset)    \* the loop ends: not found
                /\ UNCHANGED visited
           ELSE /\ visited' = visited \cup {bucket_offset}
                /\ IF str.kind = "Panic" THEN Return(Panic)
                   ELSE IF str.kind = "Some" /\ str.val = name
                   THEN Return(LookupMatch(buf, overflow_checks, cache, bucket_offset))
                   ELSE IF next.kind # "Some" THEN Return(next)
                   ELSE /\ bucket_offset' = next.val
                        /\ UNCHANGED <<pc, result>>
    /\ UNCHANGED <<file, buf, overflow_checks, cache, name, acc_out, hname, hval>>

Next ==
    \/ Load
    \/ \E n \in QueryNames : LookupBegin(n)
    \/ LookupStep

Spec == Init /\ [][Next]_vars

----------------------------------------------------------------------------
(* The accessors called on their own, on any short buffer at any offset.   *)

MaxAccLen == 5

AccBytes == {0, 65}

AccBuffers == UNION { [1..n -> AccBytes] : n \in 1..MaxAccLen }

AccOffsets == 0..(MaxAccLen + 1)

Called(fn, offset, res) == [kind |-> "call", fn |-> fn, offset |-> offset, res |-> res]

AccInit ==
    /\ buf \in AccBuffers
    /\ overflow_checks \in BOOLEAN
    /\ pc = "accessors"
    /\ file = Idle
    /\ cache = NewCache
    /\ name = <<>>
    /\ bucket_offset = 0
    /\ visited = {}
    /\ result = Idle
    /\ acc_out = Idle
    /\ hname = <<>>
    /\ hval = U32Zero

AccUnchanged ==
    UNCHANGED <<file, buf, overflow_checks, pc, cache, name, bucket_offset,
                visited, result, hname, hval>>

CallCard16(offset) ==
    /\ pc = "accessors"
    /\ acc_out' = Called("read_card16_from", offset,
                         read_card16_from(buf, offset, overflow_checks))
    /\ AccUnchanged

CallCard32(offset) ==
    /\ pc = "accessors"
    /\ acc_out' = Called("read_card32_from", offset,
                         read_card32_from(buf, offset, overflow_checks))
    /\ AccUnchanged

CallCString(offset) ==
    /\ pc = "accessors"
    /\ acc_out' = Called("read_cstring_from", offset, read_cstring_from(buf, offset))
    /\ AccUnchanged

AccNext ==
    \E offset \in AccOffsets :
        \/ CallCard16(offset)
        \/ CallCard32(offset)
        \/ CallCString(offset)

AccSpec == AccInit /\ [][AccNext]_vars

----------------------------------------------------------------------------
(* icon_name_hash called on its own.                                       *)

MaxNameLen == 7

HashBytes == {1, 97, 255}

\* "deepin-deb-installer" and "web-browser", the names the tests hash
DeepinDebInstaller ==
    <<100, 101, 101, 112, 105, 110, 45, 100, 101, 98, 45, 105, 110, 115, 116,
      97, 108, 108, 101, 114>>

WebBrowser == <<119, 101, 98, 45, 98, 114, 111, 119, 115, 101, 114>>

HashInit ==
    /\ hname = <<>>
    /\ hval = icon_name_hash(<<>>)
    /\ pc = "hash"
    /\ file = Idle
    /\ buf = <<>>
    /\ overflow_checks = FALSE
    /\ cache = NewCache
    /\ name = <<>>
    /\ bucket_offset = 0
    /\ visited = {}
    /\ result = Idle
    /\ acc_out = Idle

HashUnchanged ==
    UNCHANGED <<file, buf, overflow_checks, pc, cache, name, bucket_offset,
                visited, result, acc_out>>

\* icon_name_hash of the last name with one more byte
HashLonger(c) ==
    /\ pc = "hash"
    /\ Len(hname) < MaxNameLen
    /\ hname' = Append(hname, c)
    /\ hval' = icon_name_hash(hname')
    /\ HashUnchanged

\* icon_name_hash of a name the tests use
HashTestName(n) ==
    /\ pc = "hash"
    /\ hname' = n
    /\ hval' = icon_name_hash(n)
    /\ HashUnchanged

HashNext ==
    \/ \E c \in HashBytes : HashLonger(c)
    \/ \E n \in {DeepinDebInstaller, WebBrowser} : HashTestName(n)

HashSpec == HashInit /\ [][HashNext]_vars

----------------------------------------------------------------------------
(* What the claims read off the file description.                          *)

\* The node that stores name n in the file laid out from d, or 0.
StoredAt(d, n) ==
    IF \E i \in 1..d.k : NodeName(i) = n
    THEN CHOOSE i \in 1..d.k : NodeName(i) = n
    ELSE 0

\* The directory names node i's image list designates.
Designated(d, i) ==
    { d.dirs.pool[d.dirs.ents[NodeList(d, i)[j] + 1]] : j \in 1..Len(d.lk) }

Undamaged == pc \notin {"accessors", "hash"} /\ file.damage = NoDamage

AllDirsNamed == \A p \in 1..Len(file.desc.dirs.pool) : file.desc.dirs.pool[p] # <<>>

LookupOver == pc \in {"returned", "panicked"}

\* C1: on a well-formed file (here: laid out undamaged, every directory name
\* non-empty) a lookup of the name stored in a chain node returns exactly the
\* directory names that node's image list designates.
C1_LookupReturnsDesignated ==
    (/\ Undamaged
     /\ AllDirsNamed
     /\ LookupOver
     /\ StoredAt(file.desc, name) # 0)
    => /\ result.kind = "Some"
       /\ DOMAIN result.val = Designated(file.desc, StoredAt(file.desc, name))

\* C2: no cache is loaded from a file whose major_version is not 1.
C2_MajorVersionRequired ==
    pc = "loaded" => buf[1] * 256 + buf[2] = 1

\* C3: no accessor call panics, whatever the buffer and the offset.
C3_AccessorsNeverPanic ==
    acc_out.kind = "call" => acc_out.res.kind # "Panic"

\* C4: when the matched node's image list designates a directory whose name is
\* empty (so absent from dir_names), lookup returns the other names.
C4_AbsentDirectoryDropped ==
    (/\ Undamaged
     /\ file.desc.tail = "S"
     /\ LookupOver
     /\ StoredAt(file.desc, name) # 0
     /\ <<>> \in Designated(file.desc, StoredAt(file.desc, name)))
    => /\ result.kind = "Some"
       /\ DOMAIN result.val
            = Designated(file.desc, StoredAt(file.desc, name)) \ {<<>>}

\* The map load_cache should build from a file whose only defect is a
\* directory entry that does not decode.
DecodableDirs(d, c) ==
    LET ok == { e \in 1..Len(d.dirs.ents) :
                  /\ d.dirs.pool[d.dirs.ents[e]] # <<>>
                  /\ ~(c.kind = "dir" /\ c.at = DirEntryOff(d, e)) }
    IN  [o \in { PoolOff(d, d.dirs.ents[e]) : e \in ok } |->
            d.dirs.pool[CHOOSE p \in 1..Len(d.dirs.pool) : PoolOff(d, p) = o]]

\* C5: a directory entry whose name does not decode (offset out of bounds, or
\* empty string) is skipped: the load succeeds with the other directories.
C5_UndecodableDirectorySkipped ==
    (/\ pc \notin {"accessors", "hash", "opened"}
     /\ file.damage.kind \in {"none", "dir"}
     /\ file.desc.tail = "S")
    => /\ pc \notin {"load_failed", "load_panicked"}
       /\ cache.dir_names = DecodableDirs(file.desc, file.damage)

\* C6: a lookup of a name no node stores ends "not found" without a panic, and
\* never reads a chain node at offset 0.
C6_AbsentNameNotFound ==
    (/\ Undamaged
     /\ pc \in {"walk", "returned", "panicked"}
     /\ StoredAt(file.desc, name) = 0)
    => /\ pc # "panicked"
       /\ pc = "returned" => result = None
       /\ 0 \notin visited

\* h * 31 + c mod 2^32 on the halves of h
Times31Plus(h, c) ==
    LET lo == h[2] * 31 + c
    IN  <<(h[1] * 31 + lo \div 65536) % 65536, lo % 65536>>

\* The fold of the claim from h on (the test of h has each step evaluated
\* before the next is taken; it never holds).
RECURSIVE Fold31(_, _)
Fold31(h, bytes) ==
    IF bytes = <<>> \/ h[1] < 0 THEN h
    ELSE Fold31(Times31Plus(h, Head(bytes)), Tail(bytes))

\* C7: icon_name_hash is the fold h * 31 + c mod 2^32 from 0, a 32-bit value;
\* the empty name hashes to 0 and the tests' names to the tests' values
\* (1927089920 and 2769241519).
C7_HashIsFold31 ==
    pc = "hash" =>
       /\ hval = Fold31(<<0, 0>>, hname)
       /\ hval[1] \in 0..65535 /\ hval[2] \in 0..65535
       /\ hname = <<>> => hval = <<0, 0>>
       /\ hname = DeepinDebInstaller => hval = <<29405, 3840>>
       /\ hname = WebBrowser => hval = <<42255, 17839>>

\* C7's case: six bytes 255, whose unbounded fold 7543781280 is past 2^32,
\* hashed to 3248813984.
C7_Wrapped ==
    /\ pc = "hash"
    /\ hname = <<255, 255, 255, 255, 255, 255>>
    /\ hval = <<49572, 63392>>

\* C8: no directory name occurs twice in what a lookup returns.
C8_NoDuplicateNames ==
    (pc = "returned" /\ result.kind = "Some")
    => \A n \in DOMAIN result.val : result.val[n] = 1

\* C9: lookup terminates.  The walk is a function of bucket_offset alone, so it
\* ends exactly when it never stands again at a node it has already left.
C9_LookupTerminates ==
    pc = "walk" => bucket_offset \notin visited

\* C10: every loaded cache has a bucket count above 0.
C10_BucketCountPositive ==
    pc = "loaded" => cache.n_buckets > 0

============================================================================
